---- MODULE Spec2Model ----
(***************************************************************************)
(* AnimateController of app.py: the model state (autoencoder, text        *)
(* encoder, denoiser and the two "selected" fields), the two swap          *)
(* handlers update_base_model / update_motion_module wired to the          *)
(* dropdowns, and animate, the generate handler.                           *)
(*                                                                         *)
(* A tensor is modelled by the name of the file it was read from: a weight *)
(* of value "toonyou" under key "s1" is the tensor toonyou's checkpoint    *)
(* holds for s1.  A module is a function from its keys to tensors.         *)
(* A handler that raises leaves the controller alive (the web front end    *)
(* reports the error and serves the next request), so the state it leaves  *)
(* behind is a reachable state.                                            *)
(***************************************************************************)
EXTENDS Integers, Sequences, FiniteSets, TLC

VARIABLES
    selected_base_model,     \* self.selected_base_model
    selected_motion_module,  \* self.selected_motion_module
    vae,                     \* self.vae weights: key -> tensor
    unet,                    \* self.unet weights: key -> tensor
    text_encoder,            \* self.text_encoder weights: key -> tensor
    tokenizer,               \* self.tokenizer: the vocabulary it was loaded from
    generating,              \* the animate call in progress: position and locals
    swapping,                \* the dropdown-change handler in progress
    events,                  \* number of UI events the handlers were started for
    applied,                 \* history: the file each module was last loaded from
    call,                    \* the handler that ran last and its inputs
    result                   \* what that handler returned or raised, and the
                             \* frames it wrote to samples/sample.mp4

vars == <<selected_base_model, selected_motion_module, vae, unet,
          text_encoder, tokenizer, generating, swapping, events, applied, call,
          result>>

----------------------------------------------------------------------------
(* Key spaces of the three in-memory modules.                              *)

VaeKeys == {"v1", "v2"}
UnetSpatialKeys == {"s1", "s2"}
UnetTemporalKeys == {"t1", "t2"}
UnetKeys == UnetSpatialKeys \cup UnetTemporalKeys
ClipKeys == {"c1", "c2"}

(* Key prefixes of the external (LDM) naming convention.                   *)
VaePrefix == "first_stage_model"
UnetPrefix == "model.diffusion_model"
ClipPrefix == "cond_stage_model.transformer"

LdmKeys(vaeNames, unetNames, clipNames) ==
    ({VaePrefix} \X vaeNames) \cup ({UnetPrefix} \X unetNames)
        \cup ({ClipPrefix} \X clipNames)

----------------------------------------------------------------------------
(* The checkpoint directories.  A dropdown value may name a file that is   *)
(* no longer there.                                                        *)

BaseModelIds == {"toonyou", "lyriel", "b_partial", "b_novae", "b_deleted"}
MotionModuleIds == {"mm_v14", "mm_v15", "mm_foreign", "mm_overlap", "mm_deleted"}

\* models/DreamBooth_LoRA/*.safetensors: the raw keys each file holds
PersonalizedModelDir ==
    [ toonyou   |-> LdmKeys(VaeKeys, UnetSpatialKeys, ClipKeys),
      lyriel    |-> LdmKeys(VaeKeys, UnetSpatialKeys \cup {"x"}, ClipKeys)
                        \cup {<<"model_ema", "decay">>},
      b_partial |-> LdmKeys(VaeKeys, {"s1"}, {"c1"}),
      b_novae   |-> LdmKeys({"v1"}, UnetSpatialKeys, ClipKeys) ]

\* models/Motion_Module/*.ckpt: the (denoiser-native) keys each file holds
MotionModuleDir ==
    [ mm_v14     |-> UnetTemporalKeys,
      mm_v15     |-> UnetTemporalKeys,
      mm_foreign |-> {"t1", "x"},
      mm_overlap |-> {"t2", "s1"} ]

\* safe_open(path) ... f.get_tensor(key): the raw state dict of a base model
safe_open(name) == [k \in PersonalizedModelDir[name] |-> name]

\* torch.load(path): the state dict of a motion module
torch_load(name) == [k \in MotionModuleDir[name] |-> name]

----------------------------------------------------------------------------
(* Key-space translator: keeps the raw keys of the requested module kind,  *)
(* renamed to the in-memory convention; every other key is dropped.        *)

Translate(sd, prefix) ==
    [k \in {raw[2] : raw \in {r \in DOMAIN sd : r[1] = prefix}} |-> sd[<<prefix, k>>]]

convert_ldm_vae_checkpoint(sd) == Translate(sd, VaePrefix)
convert_ldm_unet_checkpoint(sd) == Translate(sd, UnetPrefix)

\* Returns a new text-encoder module, built from the reference text encoder
\* with the checkpoint's recognized tensors put in.
convert_ldm_clip_checkpoint(sd) ==
    LET conv == Translate(sd, ClipPrefix)
    IN [k \in ClipKeys |-> IF k \in DOMAIN conv THEN conv[k] ELSE "clip_ref"]

----------------------------------------------------------------------------
(* module.load_state_dict(sd, strict): the tensors of the keys the module  *)
(* has are copied in first; the error for missing or unexpected keys of a  *)
(* strict load is raised after the copy.                                   *)

load_state_dict(module, sd, strict) ==
    LET missing == DOMAIN module \ DOMAIN sd
        unexpected == DOMAIN sd \ DOMAIN module
    IN [ module     |-> [k \in DOMAIN module |->
                            IF k \in DOMAIN sd THEN sd[k] ELSE module[k]],
         missing    |-> missing,
         unexpected |-> unexpected,
         error      |-> strict /\ (missing \cup unexpected) # {} ]

----------------------------------------------------------------------------
(* The controller's model state, passed through the handlers as a record.  *)

Self ==
    [ selected_base_model    |-> selected_base_model,
      selected_motion_module |-> selected_motion_module,
      vae                    |-> vae,
      unet                   |-> unet,
      text_encoder           |-> text_encoder,
      tokenizer              |-> tokenizer,
      applied                |-> applied ]

Returned(self, reads) == [self |-> self, raised |-> "", reads |-> reads]
Raised(self, error, reads) == [self |-> self, raised |-> error, reads |-> reads]

\* a swap that loads the base model into a freshly built denoiser
update_base_model_fresh_unet(self, base_model_dropdown) ==
    LET s1 == [self EXCEPT !.selected_base_model = base_model_dropdown]
    IN  IF base_model_dropdown \notin DOMAIN PersonalizedModelDir
        THEN Raised(s1, "FileNotFoundError", {})
        ELSE
        LET base_model_state_dict == safe_open(base_model_dropdown)
            vaeLoad == load_state_dict(s1.vae,
                           convert_ldm_vae_checkpoint(base_model_state_dict), TRUE)
            s2 == [s1 EXCEPT !.vae = vaeLoad.module,
                             !.applied.vae = base_model_dropdown]
            unetLoad == load_state_dict(
                            [k \in UnetKeys |->
                                IF k \in UnetSpatialKeys THEN "sd15" ELSE "mm_init"],
                            convert_ldm_unet_checkpoint(base_model_state_dict), FALSE)
            s3 == [s2 EXCEPT !.unet = unetLoad.module,
                             !.text_encoder =
                                 convert_ldm_clip_checkpoint(base_model_state_dict),
                             !.applied.unet = base_model_dropdown,
                             !.applied.text_encoder = base_model_dropdown]
        IN  IF vaeLoad.error
            THEN Raised(s2, "RuntimeError", {base_model_dropdown})
            ELSE Returned(s3, {base_model_dropdown})

\* a swap whose autoencoder load is non-strict too
update_base_model_vae_nonstrict(self, base_model_dropdown) ==
    LET s1 == [self EXCEPT !.selected_base_model = base_model_dropdown]
    IN  IF base_model_dropdown \notin DOMAIN PersonalizedModelDir
        THEN Raised(s1, "FileNotFoundError", {})
        ELSE
        LET base_model_state_dict == safe_open(base_model_dropdown)
            vaeLoad == load_state_dict(s1.vae,
                           convert_ldm_vae_checkpoint(base_model_state_dict), FALSE)
            s2 == [s1 EXCEPT !.vae = vaeLoad.module,
                             !.applied.vae = base_model_dropdown]
            unetLoad == load_state_dict(s2.unet,
                            convert_ldm_unet_checkpoint(base_model_state_dict), FALSE)
            s3 == [s2 EXCEPT !.unet = unetLoad.module,
                             !.text_encoder =
                                 convert_ldm_clip_checkpoint(base_model_state_dict),
                             !.applied.unet = base_model_dropdown,
                             !.applied.text_encoder = base_model_dropdown]
        IN  Returned(s3, {base_model_dropdown})

\* AnimateController.update_base_model
update_base_model(self, base_model_dropdown) ==
    LET s1 == [self EXCEPT !.selected_base_model = base_model_dropdown]
    IN  IF base_model_dropdown \notin DOMAIN PersonalizedModelDir
        THEN Raised(s1, "FileNotFoundError", {})
        ELSE
        LET base_model_state_dict == safe_open(base_model_dropdown)
            vaeLoad == load_state_dict(s1.vae,
                           convert_ldm_vae_checkpoint(base_model_state_dict), TRUE)
            s2 == [s1 EXCEPT !.vae = vaeLoad.module,
                             !.applied.vae = base_model_dropdown]
            unetLoad == load_state_dict(s2.unet,
                            convert_ldm_unet_checkpoint(base_model_state_dict), FALSE)
            s3 == [s2 EXCEPT !.unet = unetLoad.module,
                             !.text_encoder =
                                 convert_ldm_clip_checkpoint(base_model_state_dict),
                             !.applied.unet = base_model_dropdown,
                             !.applied.text_encoder = base_model_dropdown]
        IN  IF vaeLoad.error
            THEN Raised(s2, "RuntimeError", {base_model_dropdown})
            ELSE Returned(s3, {base_model_dropdown})

\* a swap that loads the motion module into a freshly built denoiser
update_motion_module_fresh_unet(self, motion_module_dropdown) ==
    LET s1 == [self EXCEPT !.selected_motion_module = motion_module_dropdown]
    IN  IF motion_module_dropdown \notin DOMAIN MotionModuleDir
        THEN Raised(s1, "FileNotFoundError", {})
        ELSE
        LET unetLoad == load_state_dict(
                            [k \in UnetKeys |->
                                IF k \in UnetSpatialKeys THEN "sd15" ELSE "mm_init"],
                            torch_load(motion_module_dropdown), FALSE)
            s2 == [s1 EXCEPT !.unet = unetLoad.module,
                             !.applied.motion_module = motion_module_dropdown]
        IN  IF unetLoad.unexpected # {}
            THEN Raised(s2, "AssertionError", {motion_module_dropdown})
            ELSE Returned(s2, {motion_module_dropdown})

\* a swap that skips the load once some motion module has been merged
update_motion_module_loads_once(self, motion_module_dropdown) ==
    LET s1 == [self EXCEPT !.selected_motion_module = motion_module_dropdown]
    IN  IF motion_module_dropdown \notin DOMAIN MotionModuleDir
        THEN Raised(s1, "FileNotFoundError", {})
        ELSE
        LET unetLoad == load_state_dict(s1.unet,
                                        torch_load(motion_module_dropdown), FALSE)
            s2 == [s1 EXCEPT !.unet = unetLoad.module,
                             !.applied.motion_module = motion_module_dropdown]
        IN  IF self.applied.motion_module # "None"
            THEN Returned(s1, {})
            ELSE IF unetLoad.unexpected # {}
            THEN Raised(s2, "AssertionError", {motion_module_dropdown})
            ELSE Returned(s2, {motion_module_dropdown})

\* a swap that does not look at the unexpected keys
update_motion_module_no_assert(self, motion_module_dropdown) ==
    LET s1 == [self EXCEPT !.selected_motion_module = motion_module_dropdown]
    IN  IF motion_module_dropdown \notin DOMAIN MotionModuleDir
        THEN Raised(s1, "FileNotFoundError", {})
        ELSE
        LET unetLoad == load_state_dict(s1.unet,
                                        torch_load(motion_module_dropdown), FALSE)
            s2 == [s1 EXCEPT !.unet = unetLoad.module,
                             !.applied.motion_module = motion_module_dropdown]
        IN  Returned(s2, {motion_module_dropdown})

\* AnimateController.update_motion_module
update_motion_module(self, motion_module_dropdown) ==
    LET s1 == [self EXCEPT !.selected_motion_module = motion_module_dropdown]
    IN  IF motion_module_dropdown \notin DOMAIN MotionModuleDir
        THEN Raised(s1, "FileNotFoundError", {})
        ELSE
        LET motion_module_state_dict == torch_load(motion_module_dropdown)
            unetLoad == load_state_dict(s1.unet, motion_module_state_dict, FALSE)
            s2 == [s1 EXCEPT !.unet = unetLoad.module,
                             !.applied.motion_module = motion_module_dropdown]
        IN  IF unetLoad.unexpected # {}
            THEN Raised(s2, "AssertionError", {motion_module_dropdown})
            ELSE Returned(s2, {motion_module_dropdown})

----------------------------------------------------------------------------
(* Seed resolution.  The seed arrives as text.  The code masks a positive  *)
(* seed to 63 bits and the random source returns an unsigned 64-bit        *)
(* number; the model keeps the two widths one bit apart, scaled down to    *)
(* SeedMaskBits and SeedMaskBits + 1 bits.                                 *)

SeedMaskBits == 2
SeedMask == 2 ^ SeedMaskBits - 1
RandomSeeds == 0 .. (2 ^ (SeedMaskBits + 1) - 1)

Digits == <<"0", "1", "2", "3", "4", "5", "6", "7", "8", "9">>
IsDigit(c) == \E i \in 1 .. 10 : Digits[i] = c
DigitValue(c) == (CHOOSE i \in 1 .. 10 : Digits[i] = c) - 1

RECURSIVE Magnitude(_)
Magnitude(ds) ==
    IF ds = <<>> THEN 0
    ELSE 10 * Magnitude(SubSeq(ds, 1, Len(ds) - 1)) + DigitValue(ds[Len(ds)])

\* int(seed_textbox) raises ValueError on these
Malformed(text) ==
    LET ds == IF text # <<>> /\ text[1] = "-" THEN Tail(text) ELSE text
    IN  ds = <<>> \/ \E i \in 1 .. Len(ds) : ~IsDigit(ds[i])

\* int(seed_textbox)
int(text) ==
    IF text[1] = "-" THEN 0 - Magnitude(Tail(text)) ELSE Magnitude(text)

\* x & ((1 << SeedMaskBits) - 1), for x >= 0
BitAndMask(x) == x % (SeedMask + 1)

\* a seed resolution that seeds the generator with the number as typed
ResolvedSeeds_unmasked(seed_textbox) ==
    IF int(seed_textbox) > 0
    THEN {int(seed_textbox)}
    ELSE RandomSeeds

\* lines 122-124: the values torch.initial_seed() can return
ResolvedSeeds(seed_textbox) ==
    IF int(seed_textbox) > 0
    THEN {BitAndMask(int(seed_textbox))}
    ELSE RandomSeeds

\* seed texts of the requests: the default "-1", zero, small seeds, seeds at and
\* above the mask width, and an empty (malformed) text
AllSeedTexts ==
    { <<"-", "1">>, <<"0">>, <<"1">>, <<"3">>, <<"6">>, <<"8">>, <<"9">>, <<>> }

\* the seed text of the requests that exercise the swaps
SeedTexts == { <<"3">> }

----------------------------------------------------------------------------
(* Requests, results and the sampling pipeline.                            *)

Requests ==
    { [prompt |-> "p1", n_prompt |-> "n1", width |-> 256, height |-> 512],
      [prompt |-> "p2", n_prompt |-> "n2", width |-> 512, height |-> 768] }

NoRequest == [prompt |-> "", n_prompt |-> "", width |-> 0, height |-> 0]

NoJson ==
    [ prompt |-> "", n_prompt |-> "", width |-> 0, height |-> 0, seed |-> 0 - 1,
      base_model |-> "", motion_module |-> "" ]

\* AnimationPipeline(vae=self.vae, text_encoder=self.text_encoder, unet=self.unet);
\* the tokenizer it is also given is the same in every state
AnimationPipeline(self) ==
    [vae |-> self.vae, text_encoder |-> self.text_encoder, unet |-> self.unet]

NoPipeline ==
    [ vae          |-> [k \in VaeKeys |-> ""],
      text_encoder |-> [k \in ClipKeys |-> ""],
      unet         |-> [k \in UnetKeys |-> ""] ]

NoSample == [pipeline |-> NoPipeline, request |-> NoRequest, seed |-> 0 - 1]

\* pipeline(prompt, negative_prompt=..., width=..., height=...).videos: the frames
\* are a function of the bound weights, the request and the seeded generator
Sample(pipeline, request, seed) ==
    [pipeline |-> pipeline, request |-> request, seed |-> seed]

\* lines 139-147
JsonConfig(request, seed, base_model_dropdown, motion_module_dropdown) ==
    [ prompt        |-> request.prompt,
      n_prompt      |-> request.n_prompt,
      width         |-> request.width,
      height        |-> request.height,
      seed          |-> seed,
      base_model    |-> base_model_dropdown,
      motion_module |-> motion_module_dropdown ]

\* a generate that reloads both checkpoints on every call
Reconcile_always_reloads(self, base_model_dropdown, motion_module_dropdown) ==
    LET r1 == update_base_model(self, base_model_dropdown)
    IN  IF r1.raised # "" THEN r1
        ELSE
        LET r2 == update_motion_module(r1.self, motion_module_dropdown)
        IN  [r2 EXCEPT !.reads = r1.reads \cup r2.reads]

\* lines 112-113: animate swaps only what differs from the selected fields
Reconcile(self, base_model_dropdown, motion_module_dropdown) ==
    LET r1 == IF self.selected_base_model # base_model_dropdown
              THEN update_base_model(self, base_model_dropdown)
              ELSE Returned(self, {})
    IN  IF r1.raised # "" THEN r1
        ELSE
        LET r2 == IF r1.self.selected_motion_module # motion_module_dropdown
                  THEN update_motion_module(r1.self, motion_module_dropdown)
                  ELSE Returned(r1.self, {})
        IN  [r2 EXCEPT !.reads = r1.reads \cup r2.reads]

----------------------------------------------------------------------------
(* State after construction and the handlers.                              *)

\* from_pretrained(...): the reference weights; the temporal layers of the
\* denoiser are not in the 2D reference checkpoint
Pretrained ==
    [ selected_base_model    |-> "None",
      selected_motion_module |-> "None",
      vae                    |-> [k \in VaeKeys |-> "sd15"],
      unet                   |-> [k \in UnetKeys |->
                                    IF k \in UnetSpatialKeys THEN "sd15" ELSE "mm_init"],
      text_encoder           |-> [k \in ClipKeys |-> "sd15"],
      tokenizer              |-> "sd15",
      applied                |-> [ vae |-> "sd15", unet |-> "sd15",
                                   text_encoder |-> "sd15", motion_module |-> "None" ] ]

Store(self) ==
    /\ selected_base_model' = self.selected_base_model
    /\ selected_motion_module' = self.selected_motion_module
    /\ vae' = self.vae
    /\ unet' = self.unet
    /\ text_encoder' = self.text_encoder
    /\ tokenizer' = self.tokenizer
    /\ applied' = self.applied

Call(op, base, motion, request, seed_textbox, reads) ==
    [ op |-> op, base_model_dropdown |-> base, motion_module_dropdown |-> motion,
      request |-> request, seed_textbox |-> seed_textbox, reads |-> reads ]

Result(raised, json_config, pipeline, video) ==
    [ raised |-> raised, json_config |-> json_config, pipeline |-> pipeline,
      video |-> video ]

\* the frame of an update_base_model / update_motion_module call: the
\* statement it is at, its argument and the files it has read
NoFrame == [op |-> "", pc |-> "idle", arg |-> "", raised |-> "", reads |-> {}]

\* the frame of an animate call: the statement it is at, its arguments, the
\* swap it is inside of, and its locals.  The pipeline holds the text-encoder
\* object it was built with; the autoencoder and the denoiser are the shared
\* objects the swaps load into.
NoAnimate ==
    [ pc |-> "idle", base_model_dropdown |-> "", motion_module_dropdown |-> "",
      request |-> NoRequest, seed_textbox |-> <<>>, inner |-> NoFrame,
      text_encoder |-> NoPipeline.text_encoder, seed |-> 0 - 1,
      sample |-> NoSample, reads |-> {} ]

\* AnimateController.__init__: the first file of each directory listing is
\* loaded; a constructor that raises ends the program before it serves.
Init ==
    \E b0 \in DOMAIN PersonalizedModelDir, m0 \in DOMAIN MotionModuleDir :
        LET r1 == update_base_model(Pretrained, b0)
            r2 == update_motion_module(r1.self, m0)
        IN  /\ r1.raised = ""
            /\ r2.raised = ""
            /\ selected_base_model = r2.self.selected_base_model
            /\ selected_motion_module = r2.self.selected_motion_module
            /\ vae = r2.self.vae
            /\ unet = r2.self.unet
            /\ text_encoder = r2.self.text_encoder
            /\ tokenizer = r2.self.tokenizer
            /\ applied = r2.self.applied
            /\ generating = NoAnimate
            /\ swapping = NoFrame
            /\ events = 0
            /\ call = Call("__init__", b0, m0, NoRequest, <<>>, {b0, m0})
            /\ result = Result("", NoJson, NoPipeline, NoSample)

\* base_model_dropdown.change(fn=controller.update_base_model)
UpdateBaseModel(base_model_dropdown) ==
    \E r \in {update_base_model(Self, base_model_dropdown)} :
        /\ Store(r.self)
        /\ call' = Call("update_base_model", base_model_dropdown, "", NoRequest,
                        <<>>, r.reads)
        /\ result' = Result(r.raised, NoJson, NoPipeline, NoSample)
        /\ UNCHANGED <<generating, swapping, events>>

\* motion_module_dropdown.change(fn=controller.update_motion_module)
UpdateMotionModule(motion_module_dropdown) ==
    \E r \in {update_motion_module(Self, motion_module_dropdown)} :
        /\ Store(r.self)
        /\ call' = Call("update_motion_module", "", motion_module_dropdown, NoRequest,
                        <<>>, r.reads)
        /\ result' = Result(r.raised, NoJson, NoPipeline, NoSample)
        /\ UNCHANGED <<generating, swapping, events>>

\* generate_button.click(fn=controller.animate)
Animate(base_model_dropdown, motion_module_dropdown, request, seed_textbox) ==
    \E r \in {Reconcile(Self, base_model_dropdown, motion_module_dropdown)} :
    \E pipeline \in {AnimationPipeline(r.self)} :
        /\ Store(r.self)
        /\ call' = Call("animate", base_model_dropdown, motion_module_dropdown,
                        request, seed_textbox, r.reads)
        /\ UNCHANGED <<generating, swapping, events>>
        /\ IF r.raised # ""
           THEN result' = Result(r.raised, NoJson, NoPipeline, NoSample)
           ELSE IF Malformed(seed_textbox)
           THEN result' = Result("ValueError", NoJson, pipeline, NoSample)
           ELSE \E seed \in ResolvedSeeds(seed_textbox) :
                result' = Result("", JsonConfig(request, seed, base_model_dropdown,
                                                motion_module_dropdown),
                                 pipeline, Sample(pipeline, request, seed))

Next ==
    \/ \E b \in BaseModelIds : UpdateBaseModel(b)
    \/ \E m \in MotionModuleIds : UpdateMotionModule(m)
    \/ \E b \in BaseModelIds, m \in MotionModuleIds, q \in Requests, t \in SeedTexts :
           Animate(b, m, q, t)

Spec == Init /\ [][Next]_vars


\* seed resolution explored with every seed text, on the complete checkpoints
SeedBaseModelIds == {"toonyou", "lyriel"}
SeedMotionModuleIds == {"mm_v14", "mm_v15"}

NextSeed ==
    \E b \in SeedBaseModelIds, m \in SeedMotionModuleIds, q \in Requests,
       t \in AllSeedTexts : Animate(b, m, q, t)

SpecSeed == Init /\ [][NextSeed]_vars

\* the handlers, looking only at the calls that return without error
NextSuccessful == Next /\ result'.raised = ""

SpecSuccessful == Init /\ [][NextSuccessful]_vars

\* the controller a fresh construction with base model b and motion module m
\* ends with (__init__ applies the base model, then the motion module)
Constructed(b, m) ==
    update_motion_module(update_base_model(Pretrained, b).self, m).self

----------------------------------------------------------------------------
(* The handlers statement by statement.  The controller holds no lock: a   *)
(* dropdown-change handler and an animate call in progress both work on    *)
(* the same fields, and either may run its next statement.                 *)

\* UI events of one session of the statement-by-statement specification
MaxEvents == 3

StartFrame(op, arg) ==
    [ op |-> op, pc |-> IF op = "update_base_model" THEN "76" ELSE "93",
      arg |-> arg, raised |-> "", reads |-> {} ]

\* one statement of update_base_model (lines 76-89) or update_motion_module
\* (lines 93-98), at the line frame.pc names
update_step(self, frame) ==
    LET at(pc) == [frame EXCEPT !.pc = pc]
        raise(error) == [frame EXCEPT !.pc = "raised", !.raised = error]
        read == [frame EXCEPT !.reads = {frame.arg}]
    IN  CASE frame.pc = "76" ->
                 [ self  |-> [self EXCEPT !.selected_base_model = frame.arg],
                   frame |-> at("80") ]
          [] frame.pc = "80" ->
                 [ self  |-> self,
                   frame |-> IF frame.arg \in DOMAIN PersonalizedModelDir
                             THEN [read EXCEPT !.pc = "83"]
                             ELSE raise("FileNotFoundError") ]
          [] frame.pc = "83" ->
                 LET vaeLoad == load_state_dict(self.vae,
                                    convert_ldm_vae_checkpoint(safe_open(frame.arg)),
                                    TRUE)
                 IN  [ self  |-> [self EXCEPT !.vae = vaeLoad.module,
                                              !.applied.vae = frame.arg],
                       frame |-> IF vaeLoad.error THEN raise("RuntimeError")
                                 ELSE at("86") ]
          [] frame.pc = "86" ->
                 LET unetLoad == load_state_dict(self.unet,
                                     convert_ldm_unet_checkpoint(safe_open(frame.arg)),
                                     FALSE)
                 IN  [ self  |-> [self EXCEPT !.unet = unetLoad.module,
                                              !.applied.unet = frame.arg],
                       frame |-> at("89") ]
          [] frame.pc = "89" ->
                 [ self  |-> [self EXCEPT
                                 !.text_encoder =
                                     convert_ldm_clip_checkpoint(safe_open(frame.arg)),
                                 !.applied.text_encoder = frame.arg],
                   frame |-> at("returned") ]
          [] frame.pc = "93" ->
                 [ self  |-> [self EXCEPT !.selected_motion_module = frame.arg],
                   frame |-> at("96") ]
          [] frame.pc = "96" ->
                 [ self  |-> self,
                   frame |-> IF frame.arg \in DOMAIN MotionModuleDir
                             THEN [read EXCEPT !.pc = "97"]
                             ELSE raise("FileNotFoundError") ]
          [] frame.pc = "97" ->
                 LET unetLoad == load_state_dict(self.unet, torch_load(frame.arg),
                                                 FALSE)
                 IN  [ self  |-> [self EXCEPT !.unet = unetLoad.module,
                                              !.applied.motion_module = frame.arg],
                       frame |-> at("98") ]
          [] frame.pc = "98" ->
                 [ self  |-> self,
                   frame |-> IF load_state_dict(self.unet, torch_load(frame.arg),
                                                FALSE).unexpected = {}
                             THEN at("returned")
                             ELSE raise("AssertionError") ]

Running(frame) == frame.pc \notin {"idle", "returned", "raised"}

\* a dropdown's change event starts its handler
DropdownChange(op, arg) ==
    /\ swapping.pc = "idle"
    /\ events < MaxEvents
    /\ events' = events + 1
    /\ swapping' = StartFrame(op, arg)
    /\ UNCHANGED <<selected_base_model, selected_motion_module, vae, unet,
                   text_encoder, tokenizer, generating, applied, call, result>>

\* the dropdown handler runs its next statement
SwapStep ==
    /\ Running(swapping)
    /\ \E r \in {update_step(Self, swapping)} :
           /\ Store(r.self)
           /\ IF Running(r.frame)
              THEN /\ swapping' = r.frame
                   /\ UNCHANGED <<call, result>>
              ELSE /\ swapping' = NoFrame
                   /\ call' = IF r.frame.op = "update_base_model"
                              THEN Call(r.frame.op, r.frame.arg, "", NoRequest, <<>>,
                                        r.frame.reads)
                              ELSE Call(r.frame.op, "", r.frame.arg, NoRequest, <<>>,
                                        r.frame.reads)
                   /\ result' = Result(r.frame.raised, NoJson, NoPipeline, NoSample)
    /\ UNCHANGED <<tokenizer, generating, events>>

\* the generate button's click event starts animate
GenerateClick(base_model_dropdown, motion_module_dropdown, request, seed_textbox) ==
    /\ generating.pc = "idle"
    /\ events < MaxEvents
    /\ events' = events + 1
    /\ generating' = [NoAnimate EXCEPT
                         !.pc = "112",
                         !.base_model_dropdown = base_model_dropdown,
                         !.motion_module_dropdown = motion_module_dropdown,
                         !.request = request,
                         !.seed_textbox = seed_textbox]
    /\ UNCHANGED <<selected_base_model, selected_motion_module, vae, unet,
                   text_encoder, tokenizer, swapping, applied, call, result>>

\* lines 112 and 113: the comparison with the selected field; the call of
\* the swap starts when they differ
AnimateGuard ==
    /\ generating.pc \in {"112", "113"}
    /\ generating.inner.pc = "idle"
    /\ generating' =
           IF generating.pc = "112"
           THEN IF selected_base_model # generating.base_model_dropdown
                THEN [generating EXCEPT !.inner =
                         StartFrame("update_base_model", generating.base_model_dropdown)]
                ELSE [generating EXCEPT !.pc = "113"]
           ELSE IF selected_motion_module # generating.motion_module_dropdown
                THEN [generating EXCEPT !.inner =
                         StartFrame("update_motion_module",
                                    generating.motion_module_dropdown)]
                ELSE [generating EXCEPT !.pc = "117"]
    /\ UNCHANGED <<selected_base_model, selected_motion_module, vae, unet,
                   text_encoder, tokenizer, swapping, events, applied, call,
                   result>>

\* lines 112 and 113: the next statement of the swap animate is inside of
AnimateSwapStep ==
    /\ Running(generating.inner)
    /\ \E r \in {update_step(Self, generating.inner)} :
           /\ Store(r.self)
           /\ IF r.frame.pc = "raised"
              THEN /\ generating' = NoAnimate
                   /\ call' = Call("animate", generating.base_model_dropdown,
                                   generating.motion_module_dropdown,
                                   generating.request, generating.seed_textbox,
                                   generating.reads \cup r.frame.reads)
                   /\ result' = Result(r.frame.raised, NoJson, NoPipeline, NoSample)
              ELSE /\ generating' =
                          IF r.frame.pc = "returned"
                          THEN [generating EXCEPT
                                   !.inner = NoFrame,
                                   !.reads = @ \cup r.frame.reads,
                                   !.pc = IF @ = "112" THEN "113" ELSE "117"]
                          ELSE [generating EXCEPT !.inner = r.frame]
                   /\ UNCHANGED <<call, result>>
    /\ UNCHANGED <<tokenizer, swapping, events>>

\* lines 117-120: the pipeline is given the controller's module objects
AnimatePipeline ==
    /\ generating.pc = "117"
    /\ generating' = [generating EXCEPT !.pc = "122",
                                        !.text_encoder = text_encoder]
    /\ UNCHANGED <<selected_base_model, selected_motion_module, vae, unet,
                   text_encoder, tokenizer, swapping, events, applied, call,
                   result>>

\* lines 122-124: the generator is seeded
AnimateSeed ==
    /\ generating.pc = "122"
    /\ IF Malformed(generating.seed_textbox)
       THEN /\ generating' = NoAnimate
            /\ call' = Call("animate", generating.base_model_dropdown,
                            generating.motion_module_dropdown, generating.request,
                            generating.seed_textbox, generating.reads)
            /\ result' = Result("ValueError", NoJson,
                                [ vae |-> vae, text_encoder |-> generating.text_encoder,
                                  unet |-> unet ],
                                NoSample)
       ELSE /\ \E seed \in ResolvedSeeds(generating.seed_textbox) :
                   generating' = [generating EXCEPT !.pc = "126", !.seed = seed]
            /\ UNCHANGED <<call, result>>
    /\ UNCHANGED <<selected_base_model, selected_motion_module, vae, unet,
                   text_encoder, tokenizer, swapping, events, applied>>

\* lines 126-134: the frames are sampled with the weights the pipeline's
\* modules hold at that moment
AnimateSample ==
    /\ generating.pc = "126"
    /\ generating' =
           [generating EXCEPT
               !.pc = "136",
               !.sample = Sample([ vae |-> vae,
                                   text_encoder |-> generating.text_encoder,
                                   unet |-> unet ],
                                 generating.request, generating.seed)]
    /\ UNCHANGED <<selected_base_model, selected_motion_module, vae, unet,
                   text_encoder, tokenizer, swapping, events, applied, call,
                   result>>

\* lines 136-148: the frames are saved and returned with the metadata
AnimateReturn ==
    /\ generating.pc = "136"
    /\ generating' = NoAnimate
    /\ call' = Call("animate", generating.base_model_dropdown,
                    generating.motion_module_dropdown, generating.request,
                    generating.seed_textbox, generating.reads)
    /\ result' = Result("", JsonConfig(generating.request, generating.seed,
                                       generating.base_model_dropdown,
                                       generating.motion_module_dropdown),
                        generating.sample.pipeline, generating.sample)
    /\ UNCHANGED <<selected_base_model, selected_motion_module, vae, unet,
                   text_encoder, tokenizer, swapping, events, applied>>

\* a dropdown swap beside an animate call, on the complete checkpoints
InitConcurrent ==
    /\ Init
    /\ selected_base_model \in SeedBaseModelIds
    /\ selected_motion_module \in SeedMotionModuleIds

NextConcurrent ==
    \/ \E b \in SeedBaseModelIds : DropdownChange("update_base_model", b)
    \/ \E m \in SeedMotionModuleIds : DropdownChange("update_motion_module", m)
    \/ SwapStep
    \/ \E b \in SeedBaseModelIds, m \in SeedMotionModuleIds, q \in Requests,
          t \in SeedTexts : GenerateClick(b, m, q, t)
    \/ AnimateGuard
    \/ AnimateSwapStep
    \/ AnimatePipeline
    \/ AnimateSeed
    \/ AnimateSample
    \/ AnimateReturn

SpecConcurrent == InitConcurrent /\ [][NextConcurrent]_vars

----------------------------------------------------------------------------
(* Vocabulary of the properties.                                           *)

BaseAvailable(b) == b \in DOMAIN PersonalizedModelDir
MotionAvailable(m) == m \in DOMAIN MotionModuleDir

\* autoencoder, denoiser and text encoder were each last loaded from base model b
HoldsBaseModel(a, b) ==
    /\ BaseAvailable(b)
    /\ a.vae = b
    /\ a.unet = b
    /\ a.text_encoder = b

\* the denoiser's temporal layers were last loaded from motion module m
HoldsMotionModule(a, m) ==
    /\ MotionAvailable(m)
    /\ a.motion_module = m

HasForeignKey(m) == MotionAvailable(m) /\ MotionModuleDir[m] \ UnetKeys # {}
OnlyTemporalKeys(m) == MotionAvailable(m) /\ MotionModuleDir[m] \subseteq UnetTemporalKeys

IsCall(c, op) == c.op = op

----------------------------------------------------------------------------
(* C1: a motion-module swap whose checkpoint has a key outside the         *)
(* denoiser's key space raises, and the selected-motion-module field keeps *)
(* the value it had before the call.                                       *)
C1_ForeignKeySwapNotCommitted ==
    [][ (IsCall(call', "update_motion_module")
            /\ HasForeignKey(call'.motion_module_dropdown))
        => (result'.raised # "" /\ selected_motion_module' = selected_motion_module)
      ]_vars

(* C2: a generate call naming an unavailable base model or motion module   *)
(* always raises and returns no result, whatever calls went before.        *)
C2_UnavailableAlwaysFails ==
    (IsCall(call, "animate")
        /\ (~BaseAvailable(call.base_model_dropdown)
            \/ ~MotionAvailable(call.motion_module_dropdown)))
    => (result.raised # "" /\ result.json_config = NoJson /\ result.video = NoSample)

(* C3: whenever a handler has returned control, the selected base model is *)
(* the one the three modules hold and the selected motion module is the    *)
(* one the denoiser's temporal layers hold.                                *)
C3_SelectedMatchesWeights ==
    /\ HoldsBaseModel(applied, selected_base_model)
    /\ HoldsMotionModule(applied, selected_motion_module)

(* C4 as stated: a swap handler called with the identifier that is already *)
(* selected reads no checkpoint and changes no weight.                     *)
C4_SwapOfSelectedIsNoOp ==
    [][ /\ (IsCall(call', "update_base_model")
              /\ BaseAvailable(call'.base_model_dropdown)
              /\ call'.base_model_dropdown = selected_base_model)
           => (call'.reads = {} /\ vae' = vae /\ unet' = unet
                  /\ text_encoder' = text_encoder)
        /\ (IsCall(call', "update_motion_module")
              /\ MotionAvailable(call'.motion_module_dropdown)
              /\ call'.motion_module_dropdown = selected_motion_module)
           => (call'.reads = {} /\ unet' = unet)
      ]_vars

(* C4 amended: the short-circuit is generate's.  A generate call naming    *)
(* the selected base model reads no base checkpoint and leaves autoencoder *)
(* and text encoder as they are; one naming the selected motion module     *)
(* reads no motion checkpoint; one naming both reads nothing and changes   *)
(* no weight.  The swap handlers themselves read the checkpoint they are   *)
(* given on every call.                                                    *)
C4_GenerateSkipsSelected ==
    [][ /\ IsCall(call', "animate")
           => /\ call'.base_model_dropdown = selected_base_model
                 => /\ call'.base_model_dropdown \notin call'.reads
                    /\ vae' = vae
                    /\ text_encoder' = text_encoder
              /\ call'.motion_module_dropdown = selected_motion_module
                 => call'.motion_module_dropdown \notin call'.reads
              /\ (call'.base_model_dropdown = selected_base_model
                    /\ call'.motion_module_dropdown = selected_motion_module)
                 => (call'.reads = {} /\ unet' = unet)
        /\ (IsCall(call', "update_base_model")
              /\ BaseAvailable(call'.base_model_dropdown))
           => call'.reads = {call'.base_model_dropdown}
        /\ (IsCall(call', "update_motion_module")
              /\ MotionAvailable(call'.motion_module_dropdown))
           => call'.reads = {call'.motion_module_dropdown}
      ]_vars

\* a generate call that named the two selected checkpoints and sampled
C4_Witness ==
    /\ IsCall(call, "animate")
    /\ BaseAvailable(call.base_model_dropdown)
    /\ MotionAvailable(call.motion_module_dropdown)
    /\ call.reads = {}
    /\ result.raised = ""

(* C5: a motion-module swap whose checkpoint has only temporal-layer keys  *)
(* of the denoiser returns without error and leaves the denoiser's         *)
(* non-temporal weights, the autoencoder, the text encoder and the         *)
(* selected base model as they were.                                       *)
C5_MotionSwapFrame ==
    [][ (IsCall(call', "update_motion_module")
            /\ OnlyTemporalKeys(call'.motion_module_dropdown))
        => /\ result'.raised = ""
           /\ \A k \in UnetKeys \ UnetTemporalKeys : unet'[k] = unet[k]
           /\ vae' = vae
           /\ text_encoder' = text_encoder
           /\ selected_base_model' = selected_base_model
      ]_vars

\* a temporal-only motion module swapped in over a personalized base model
C5_Witness ==
    /\ IsCall(call, "update_motion_module")
    /\ OnlyTemporalKeys(call.motion_module_dropdown)
    /\ result.raised = ""
    /\ selected_motion_module = call.motion_module_dropdown
    /\ \A k \in UnetTemporalKeys : unet[k] = call.motion_module_dropdown
    /\ \A k \in UnetSpatialKeys : unet[k] = "lyriel"

AnimateReturned(c, r) == IsCall(c, "animate") /\ r.raised = ""

(* C6 as stated: for a seed text that parses to a positive integer S, the  *)
(* seed recorded in the metadata is S itself.                              *)
C6_RecordedSeedIsS ==
    (AnimateReturned(call, result) /\ int(call.seed_textbox) > 0)
    => result.json_config.seed = int(call.seed_textbox)

(* C6 amended: for a seed text that parses to a positive integer S, the    *)
(* seed recorded in the metadata is S reduced modulo 2^SeedMaskBits, hence *)
(* S itself exactly when S is below 2^SeedMaskBits; and two consecutive    *)
(* generate calls with the same inputs record the same seed.               *)
C6_RecordedSeedIsMaskedS ==
    /\ [] ( (AnimateReturned(call, result) /\ int(call.seed_textbox) > 0)
            => /\ result.json_config.seed
                    = int(call.seed_textbox) % (2 ^ SeedMaskBits)
               /\ int(call.seed_textbox) < 2 ^ SeedMaskBits
                    => result.json_config.seed = int(call.seed_textbox) )
    /\ [][ ( /\ AnimateReturned(call, result)
             /\ AnimateReturned(call', result')
             /\ int(call.seed_textbox) > 0
             /\ call'.seed_textbox = call.seed_textbox
             /\ call'.request = call.request
             /\ call'.base_model_dropdown = call.base_model_dropdown
             /\ call'.motion_module_dropdown = call.motion_module_dropdown )
           => result'.json_config.seed = result.json_config.seed ]_vars

\* a generate call with a seed at or above the mask width returned
C6_Witness ==
    /\ AnimateReturned(call, result)
    /\ int(call.seed_textbox) >= 2 ^ SeedMaskBits
    /\ result.json_config.seed < int(call.seed_textbox)

(* C7: for a seed text that parses to an integer <= 0, the seed recorded   *)
(* in the metadata is drawn from the random source and is strictly         *)
(* positive.                                                               *)
C7_RandomSeedPositive ==
    (AnimateReturned(call, result) /\ int(call.seed_textbox) <= 0)
    => result.json_config.seed > 0

(* C8: a generate call that returns a result sampled with the modules      *)
(* holding the requested base model and motion module, the selected fields *)
(* naming them, and its metadata records the requested identifiers, the    *)
(* request's prompt, negative prompt, width and height and the seed the    *)
(* frames were sampled with.                                               *)
C8_GenerateUsesRequestedModels ==
    AnimateReturned(call, result)
    => /\ HoldsBaseModel(applied, call.base_model_dropdown)
       /\ HoldsMotionModule(applied, call.motion_module_dropdown)
       /\ selected_base_model = call.base_model_dropdown
       /\ selected_motion_module = call.motion_module_dropdown
       /\ result.pipeline = [vae |-> vae, text_encoder |-> text_encoder, unet |-> unet]
       /\ result.video.pipeline = result.pipeline
       /\ result.json_config.base_model = call.base_model_dropdown
       /\ result.json_config.motion_module = call.motion_module_dropdown
       /\ result.json_config.prompt = call.request.prompt
       /\ result.json_config.n_prompt = call.request.n_prompt
       /\ result.json_config.width = call.request.width
       /\ result.json_config.height = call.request.height
       /\ result.json_config.seed = result.video.seed

(* C9: the selected-base-model field changes only once the checkpoint has  *)
(* been read and the loads to autoencoder, denoiser and text encoder have  *)
(* all been applied.                                                       *)
C9_FieldCommittedAfterLoads ==
    [][ selected_base_model' # selected_base_model
        => HoldsBaseModel(applied', selected_base_model') ]_vars

MissingKeys(module, sd) == DOMAIN module \ DOMAIN sd

(* C10 as stated: a base-model swap whose translated checkpoint lacks keys *)
(* of the autoencoder, the text encoder or the denoiser returns without    *)
(* error, and every weight whose key is missing keeps its value, in all    *)
(* three modules.                                                          *)
C10_PartialLoadInAllThree ==
    [][ (IsCall(call', "update_base_model")
            /\ BaseAvailable(call'.base_model_dropdown))
        => LET sd == safe_open(call'.base_model_dropdown)
           IN  /\ result'.raised = ""
               /\ \A k \in MissingKeys(vae, convert_ldm_vae_checkpoint(sd)) :
                      vae'[k] = vae[k]
               /\ \A k \in MissingKeys(unet, convert_ldm_unet_checkpoint(sd)) :
                      unet'[k] = unet[k]
               /\ \A k \in MissingKeys(text_encoder, Translate(sd, ClipPrefix)) :
                      text_encoder'[k] = text_encoder[k]
      ]_vars

(* C10 amended: the non-strict partial load is the denoiser's alone.  A    *)
(* swap whose translated checkpoint has exactly the autoencoder's keys     *)
(* returns without error and every denoiser weight whose key is missing    *)
(* keeps its value; a swap whose translated checkpoint lacks an            *)
(* autoencoder key raises, with the denoiser and the text encoder left as  *)
(* they were; the text encoder is replaced by the module the translator    *)
(* returns, not loaded into.                                               *)
C10_PartialLoadInDenoiserOnly ==
    [][ (IsCall(call', "update_base_model")
            /\ BaseAvailable(call'.base_model_dropdown))
        => LET sd == safe_open(call'.base_model_dropdown)
           IN  /\ DOMAIN convert_ldm_vae_checkpoint(sd) = VaeKeys
                  => /\ result'.raised = ""
                     /\ \A k \in MissingKeys(unet, convert_ldm_unet_checkpoint(sd)) :
                            unet'[k] = unet[k]
                     /\ \A k \in UnetKeys \cap DOMAIN convert_ldm_unet_checkpoint(sd) :
                            unet'[k] = call'.base_model_dropdown
                     /\ text_encoder' = convert_ldm_clip_checkpoint(sd)
               /\ MissingKeys(vae, convert_ldm_vae_checkpoint(sd)) # {}
                  => /\ result'.raised = "RuntimeError"
                     /\ unet' = unet
                     /\ text_encoder' = text_encoder
      ]_vars

\* a checkpoint without the denoiser key s2 swapped in: s2 is another model's
C10_Witness ==
    /\ IsCall(call, "update_base_model")
    /\ call.base_model_dropdown = "b_partial"
    /\ result.raised = ""
    /\ unet["s1"] = "b_partial"
    /\ unet["s2"] = "lyriel"

(* C11: a base-model swap that returns without error leaves the           *)
(* denoiser's temporal weights, the tokenizer and the selected motion      *)
(* module as they were, through the dropdown handler and through a         *)
(* generate call that names the selected motion module alike: the motion   *)
(* module merged before stays in effect and is not read again.             *)
C11_BaseSwapFrame ==
    [][ /\ (IsCall(call', "update_base_model") /\ result'.raised = "")
           => /\ \A k \in UnetTemporalKeys : unet'[k] = unet[k]
              /\ tokenizer' = tokenizer
              /\ selected_motion_module' = selected_motion_module
              /\ applied'.motion_module = applied.motion_module
              /\ call'.reads = {call'.base_model_dropdown}
        /\ (IsCall(call', "animate") /\ result'.raised = ""
              /\ call'.motion_module_dropdown = selected_motion_module)
           => /\ \A k \in UnetTemporalKeys : unet'[k] = unet[k]
              /\ tokenizer' = tokenizer
              /\ selected_motion_module' = selected_motion_module
              /\ call'.reads \subseteq {call'.base_model_dropdown}
      ]_vars

\* lyriel swapped in under an already merged mm_v15
C11_Witness ==
    /\ IsCall(call, "update_base_model")
    /\ call.base_model_dropdown = "lyriel"
    /\ result.raised = ""
    /\ \A k \in UnetSpatialKeys : unet[k] = "lyriel"
    /\ \A k \in UnetTemporalKeys : unet[k] = "mm_v15"
    /\ selected_motion_module = "mm_v15"
    /\ tokenizer = "sd15"

MotionSwapReturned(c, r) == IsCall(c, "update_motion_module") /\ r.raised = ""

(* C12 as stated: whenever a motion-module swap returns without error, no  *)
(* spatial weight of the denoiser has changed.                             *)
C12_NoSpatialWeightChanged ==
    [][ MotionSwapReturned(call', result')
        => \A k \in UnetSpatialKeys : unet'[k] = unet[k]
      ]_vars

(* C12 amended: whenever a motion-module swap returns without error, every *)
(* key of the checkpoint is a key of the denoiser, spatial or temporal;    *)
(* each of those weights now holds the checkpoint's tensor and every       *)
(* denoiser weight whose key is absent from the checkpoint is unchanged.   *)
C12_OnlyCheckpointKeysChanged ==
    [][ MotionSwapReturned(call', result')
        => LET sd == torch_load(call'.motion_module_dropdown)
           IN  /\ DOMAIN sd \subseteq UnetKeys
               /\ \A k \in DOMAIN sd : unet'[k] = sd[k]
               /\ \A k \in UnetKeys \ DOMAIN sd : unet'[k] = unet[k]
      ]_vars

\* mm_overlap applied without error over toonyou: its spatial key replaced
C12_Witness ==
    /\ MotionSwapReturned(call, result)
    /\ call.motion_module_dropdown = "mm_overlap"
    /\ selected_base_model = "toonyou"
    /\ applied.unet = "toonyou"
    /\ unet["s1"] = "mm_overlap"
    /\ unet["s2"] = "toonyou"

\* the weights are those a fresh construction with the selected base model
\* and the selected motion module ends with
Canonical ==
    LET fresh == Constructed(selected_base_model, selected_motion_module)
    IN  /\ vae = fresh.vae
        /\ unet = fresh.unet
        /\ text_encoder = fresh.text_encoder

\* a base model with every key of the three modules' base weights
CompleteBaseModel(b) ==
    /\ BaseAvailable(b)
    /\ VaeKeys \subseteq DOMAIN convert_ldm_vae_checkpoint(safe_open(b))
    /\ UnetSpatialKeys \subseteq DOMAIN convert_ldm_unet_checkpoint(safe_open(b))
    /\ ClipKeys \subseteq DOMAIN Translate(safe_open(b), ClipPrefix)

\* a motion module with exactly the temporal keys of the denoiser
CompleteMotionModule(m) == MotionAvailable(m) /\ MotionModuleDir[m] = UnetTemporalKeys

CompleteCheckpoint(f) == CompleteBaseModel(f) \/ CompleteMotionModule(f)

(* C13 as stated: the weights depend only on the selected base model and   *)
(* the selected motion module, whatever sequence of successful calls led   *)
(* there and however partial the checkpoints: in every state such calls    *)
(* reach, the three modules hold the weights a fresh construction with the *)
(* same two selections ends with.                                          *)
C13_HistoryIndependent == Canonical

(* C13 amended: history independence holds for complete checkpoints.  From *)
(* a state whose selected base model and motion module are complete and    *)
(* whose weights are those of a fresh construction with them, a successful *)
(* call that reads only complete checkpoints leads to another such state:  *)
(* every base weight is the selected base model's and every temporal       *)
(* weight the selected motion module's, so call sequences over complete    *)
(* checkpoints that end with the same selections end with the same weights.*)
C13_CompleteSwapsHistoryIndependent ==
    [][ ( /\ Canonical
          /\ CompleteBaseModel(selected_base_model)
          /\ CompleteMotionModule(selected_motion_module)
          /\ result'.raised = ""
          /\ \A f \in call'.reads : CompleteCheckpoint(f) )
        => /\ Canonical'
           /\ CompleteBaseModel(selected_base_model')
           /\ CompleteMotionModule(selected_motion_module')
           /\ vae' = [k \in VaeKeys |-> selected_base_model']
           /\ text_encoder' = [k \in ClipKeys |-> selected_base_model']
           /\ unet' = [k \in UnetKeys |->
                          IF k \in UnetSpatialKeys THEN selected_base_model'
                          ELSE selected_motion_module']
      ]_vars

\* lyriel and mm_v15 reached by swaps from another construction, weights as
\* if constructed with them
C13_Witness ==
    /\ call.op \in {"update_base_model", "update_motion_module", "animate"}
    /\ result.raised = ""
    /\ call.reads = {"lyriel", "mm_v15"}
    /\ selected_base_model = "lyriel"
    /\ selected_motion_module = "mm_v15"
    /\ Canonical
    /\ \A k \in UnetSpatialKeys : unet[k] = "lyriel"
    /\ \A k \in UnetTemporalKeys : unet[k] = "mm_v15"

\* the weights p are the tensors of base model b and motion module m
WeightsOf(p, b, m) ==
    /\ BaseAvailable(b)
    /\ MotionAvailable(m)
    /\ p.vae = convert_ldm_vae_checkpoint(safe_open(b))
    /\ p.text_encoder = convert_ldm_clip_checkpoint(safe_open(b))
    /\ \A k \in UnetSpatialKeys :
           /\ k \in DOMAIN convert_ldm_unet_checkpoint(safe_open(b))
           /\ p.unet[k] = convert_ldm_unet_checkpoint(safe_open(b))[k]
    /\ \A k \in UnetTemporalKeys :
           /\ k \in DOMAIN torch_load(m)
           /\ p.unet[k] = torch_load(m)[k]

(* C14: whatever statements of a dropdown swap run between the statements  *)
(* of an animate call, the base model and the motion module recorded in    *)
(* the metadata the call returns are the ones whose weights the frames     *)
(* were sampled with.                                                      *)
C14_MetadataNamesUsedWeights ==
    AnimateReturned(call, result)
    => WeightsOf(result.video.pipeline, result.json_config.base_model,
                 result.json_config.motion_module)

====
